---- MODULE Spec2Model ----
(***************************************************************************)
(* MemoryDelayHandler (memorydelaysmtphandler.py): a logging handler that  *)
(* buffers records and flushes them to a target handler when the buffer    *)
(* is full, when a record of high severity arrives, or when a delay has    *)
(* elapsed since the background thread saw the first record.               *)
(*                                                                         *)
(* Threads: the producers (callers of emit() and of flush()), the closer   *)
(* (the caller of close()) and the background thread                       *)
(* _task_auto_flush_buffer.  The methods are modelled statement group by   *)
(* statement group; a thread's position is pc[t].  The producers call      *)
(* emit() and flush() themselves, as the handler's public methods allow;   *)
(* the handler's I/O lock (logging.Handler.acquire, an RLock) is taken by  *)
(* the flush routines and by close only.                                   *)
(***************************************************************************)
EXTENDS Integers, Sequences, FiniteSets, TLC

\* ------------------------------------------------------------------ bounds
\* total number of emit() calls of a run
MaxRecords == 3
\* total number of direct flush() calls of a run
MaxFlushNow == 1
\* the capacities a handler is constructed with: 1..MaxCapacity
MaxCapacity == 2
\* the configured delay, in clock ticks
Delay == 2
\* total number of target.handle calls of a run that raise
MaxFailures == 1

\* ------------------------------------------------------- program constants
\* flushLevel=logging.ERROR, the default of the constructor
FlushLevel == 40
\* the levels of the records: logging.INFO and logging.ERROR
Levels == {20, 40}
\* terminator = '\n' of _flush_to_append_buffer_buffer, as a token of a text
NL == 0

Producers == {"p1", "p2"}
Callers == Producers \cup {"cl"}
Threads == Callers \cup {"bg"}
NoThread == "none"

VARIABLES
  capacity,           \* self.capacity
  hasDelay,           \* self._delay is not None
  delay,              \* self._delay when it is not None, in clock ticks
  flushOnClose,       \* self.flushOnClose
  append_buffer,      \* self._append_buffer (TRUE for MemoryDelaySmtpHandler)
  buffer,             \* self.buffer: the ids of the buffered records, in order
  target,             \* self.target is set (close sets it to None)
  sink,               \* the texts of the calls of target.handle that returned
  lock_sync,          \* owner of self._lock_sync, or NoThread
  rlock,              \* the handler's I/O lock (an RLock): [owner, count]
  event_new_emit,     \* self._event_new_emit is set
  event_delay_flush,  \* self._event_delay_flush is set
  sync_flag,          \* self._sync_backgroud_flush
  thread_closing,     \* self._thread_closing
  barrier,            \* the threads waiting in self._barrier.wait()
  pc,                 \* each thread's position
  local,              \* flush(): local_lock_sync of the thread's call
  merge,              \* which flush routine the thread's flush chose
  ret,                \* where the thread's flush() call returns to
  level,              \* the level of the record of the producer's emit()
  needBar,            \* need_wait_barrier of the background thread
  waited,             \* ticks the background thread has spent in its delay wait
  since,              \* ticks since the producer's emit() call set the new-emit event
  age,                \* ticks since the emit() call of the buffer's first record
  clock,              \* whether the run counts the ticks of the delay
  nEmits,             \* emit() calls started
  flushNowCalls,      \* direct flush() calls started
  triggered,          \* some emit() call's shouldFlush() was true
  highSeen,           \* some emit() call had a record at or above FlushLevel
  closeMark,          \* emit() calls started when close() was called, -1 before
  doneMark,           \* emit() calls started when close() returned, -1 before
  failures,           \* calls of self.target.handle that have raised
  failedBatch,        \* the buffer of the flush whose handle call raised last
  flushedInWait       \* a direct flush() has emptied the buffer during a delay wait

conf == <<capacity, hasDelay, delay, flushOnClose, append_buffer, clock>>
hist == <<nEmits, flushNowCalls, triggered, highSeen, closeMark, doneMark>>
fail == <<failures, failedBatch>>
obs == <<flushedInWait>>
vars == <<capacity, hasDelay, delay, flushOnClose, append_buffer, buffer, target, sink,
          lock_sync, rlock, event_new_emit, event_delay_flush, sync_flag,
          thread_closing, barrier, pc, local, merge, ret, level, needBar,
          waited, since, age, clock, nEmits, flushNowCalls, triggered,
          highSeen, closeMark, doneMark, failures, failedBatch,
          flushedInWait>>

Min(a, b) == IF a < b THEN a ELSE b

\* ------------------------------------------------------------- pure parts

\* a shouldFlush that lets the buffer grow one record past the capacity
ShouldFlushPastCapacity(buf, lvl) == Len(buf) > capacity \/ lvl >= FlushLevel

\* a shouldFlush that looks at the level of the record only
ShouldFlushOnLevel(buf, lvl) == lvl >= FlushLevel

\* MemoryHandler.shouldFlush, called by BufferingHandler.emit after the append
ShouldFlush(buf, lvl) == Len(buf) >= capacity \/ lvl >= FlushLevel

\* the choice between the two flush routines
UseAppendBuffer(buf) == append_buffer /\ Len(buf) > 1

\* self.format(record): the formatted text of one record, an opaque token
Format(r) == <<r>>

\* stream_append after the loop: every record's text followed by the terminator
RECURSIVE StreamAppend(_)
StreamAppend(buf) ==
  IF buf = <<>> THEN <<>>
  ELSE Format(Head(buf)) \o <<NL>> \o StreamAppend(Tail(buf))

\* the texts handed to target.handle by _flush_to_append_buffer_buffer:
\* one record carrying the appended text, when the buffer is not empty
HandleAppended(buf) ==
  IF Len(buf) > 0 THEN <<StreamAppend(buf)>> ELSE <<>>

\* the texts handed to target.handle by MemoryHandler.flush: each record
HandleEach(buf) == [i \in 1..Len(buf) |-> Format(buf[i])]

\* the buffer after a flush routine that forgets self.buffer.clear()
BufferKept(buf) == buf

\* the buffer after a flush routine: self.buffer.clear(), inside
\* "if self.target"
AfterFlush(buf) == IF target THEN <<>> ELSE buf

\* a delay wait that times out also when the delay is None
DelayExpiredWithoutDelay == clock => waited >= delay

\* the second wait of the background thread times out
DelayExpired == hasDelay /\ (clock => waited >= delay)

\* a close that flushes whatever flushOnClose says
CloseFlushesAlways == TRUE

\* MemoryHandler.close flushes first when flushOnClose is set
CloseFlushes == flushOnClose

\* the fields __init__ sets, for a capacity of caps, flushOnClose of closes
\* and _append_buffer of appends
Attributes(caps, closes, appends, clk) ==
  /\ capacity \in caps
  /\ flushOnClose \in closes
  /\ append_buffer \in appends
  /\ clock = clk
  /\ buffer = <<>>
  /\ target = TRUE
  /\ sink = <<>>
  /\ lock_sync = NoThread
  /\ rlock = [owner |-> NoThread, count |-> 0]
  /\ event_new_emit = FALSE
  /\ event_delay_flush = FALSE
  /\ sync_flag = FALSE
  /\ thread_closing = FALSE
  /\ barrier = {}
  /\ local = [t \in Callers |-> FALSE]
  /\ merge = [t \in Threads |-> FALSE]
  /\ ret = [t \in Callers |-> "idle"]
  /\ level = [p \in Producers |-> 0]
  /\ needBar = FALSE
  /\ waited = 0
  /\ since = [p \in Producers |-> 0]
  /\ age = 0
  /\ nEmits = 0
  /\ flushNowCalls = 0
  /\ triggered = FALSE
  /\ highSeen = FALSE
  /\ closeMark = -1
  /\ doneMark = -1
  /\ failures = 0
  /\ failedBatch = <<>>
  /\ flushedInWait = FALSE

\* the positions of the threads once __init__ has started the background
\* thread
Started == [t \in Threads |-> IF t = "bg" THEN "b_top" ELSE "idle"]

\* the state after __init__, for a handler constructed with a capacity of
\* caps, a delay of Delay (or None) by delays, flushOnClose of closes, and
\* _append_buffer of appends; the background thread is started
Constructed(caps, delays, closes, appends, clk) ==
  /\ Attributes(caps, closes, appends, clk)
  /\ hasDelay \in delays
  /\ delay = (IF hasDelay THEN Delay ELSE 0)
  /\ pc = Started

Init == Constructed(1..MaxCapacity, BOOLEAN, BOOLEAN, BOOLEAN, FALSE)

\* ------------------------------------------------------------ primitives

Goto(t, l) == pc' = [pc EXCEPT ![t] = l]

\* the positions inside flush()
FlushPcs == {"f_acq", "f_len", "f_handle", "f_clear", "f_exit"}

\* the producer is inside emit()
InEmit(p) ==
  \/ pc[p] \in {"e_append", "e_check", "e_bar1", "e_reset", "e_bar2"}
  \/ pc[p] \in FlushPcs /\ ret[p] = "e_check"

\* records appended so far: the emit() calls that are past their append
\* (emit() calls take the lock in the order of their records' ids)
NAppended == nEmits - Cardinality({p \in Producers : pc[p] = "e_append"})

\* emit() calls that have returned
Returned == nEmits - Cardinality({p \in Producers : InEmit(p)})

\* self.acquire() of logging.Handler: reentrant for its owner
RCanAcquire(t) == rlock.owner \in {NoThread, t}
RAcquired(t) == [owner |-> t, count |-> rlock.count + 1]
\* self.release()
RReleased ==
  IF rlock.count = 1 THEN [owner |-> NoThread, count |-> 0]
  ELSE [owner |-> rlock.owner, count |-> rlock.count - 1]

\* where a thread continues after a self._barrier.wait()
AfterBarrier(l) ==
  CASE l = "e_bar1" -> "e_reset"
    [] l = "e_bar2" -> "idle"
    [] l = "b_bar1" -> "b_bar2"
    [] l = "b_bar2" -> "b_top"

\* threading.Barrier(2).wait(): the first thread to arrive waits, the second
\* releases both
BarrierWait(t) ==
  /\ pc[t] \in {"e_bar1", "e_bar2", "b_bar1", "b_bar2"}
  /\ t \notin barrier
  /\ IF barrier = {}
     THEN /\ barrier' = {t}
          /\ UNCHANGED pc
     ELSE /\ barrier' = {}
          /\ pc' = [u \in Threads |->
                      IF u = t \/ u \in barrier THEN AfterBarrier(pc[u])
                      ELSE pc[u]]
  /\ UNCHANGED <<conf, fail, obs, buffer, target, sink, lock_sync, rlock, event_new_emit,
                 event_delay_flush, sync_flag, thread_closing, local, merge,
                 ret, level, needBar, waited, since, age, hist>>

\* the texts a flush routine hands to the target
Handled(buf, m) == IF m THEN HandleAppended(buf) ELSE HandleEach(buf)

\* flush() up to the acquire: local_lock_sync = not self._lock_sync.locked()
FlushLocal == lock_sync = NoThread

\* the call of flush() by thread t, returning to r
CallFlush(t, r) ==
  /\ local' = [local EXCEPT ![t] = FlushLocal]
  /\ ret' = [ret EXCEPT ![t] = r]
  /\ Goto(t, IF FlushLocal THEN "f_acq" ELSE "f_len")

\* ------------------------------------------------------------------ emit

\* a producer calls emit(record) with a record of some level:
\* self._lock_sync.acquire(); self._event_new_emit.set()
EmitLock(p) ==
  /\ pc[p] = "idle"
  /\ nEmits < MaxRecords
  /\ lock_sync = NoThread
  /\ \E lvl \in Levels :
       /\ level' = [level EXCEPT ![p] = lvl]
       /\ highSeen' = (highSeen \/ lvl >= FlushLevel)
  /\ nEmits' = nEmits + 1
  /\ lock_sync' = p
  /\ event_new_emit' = TRUE
  /\ Goto(p, "e_append")
  /\ UNCHANGED <<conf, fail, obs, buffer, target, sink, rlock, event_delay_flush,
                 sync_flag, thread_closing, barrier, local, merge, ret,
                 needBar, waited, since, age, flushNowCalls, triggered, closeMark,
                 doneMark>>

\* MemoryHandler.emit: self.buffer.append(record); if shouldFlush: self.flush()
EmitAppend(p) ==
  /\ pc[p] = "e_append"
  /\ buffer' = Append(buffer, NAppended + 1)
  /\ age' = IF buffer = <<>> THEN since[p] ELSE age
  /\ since' = [since EXCEPT ![p] = 0]
  /\ IF ShouldFlush(buffer', level[p])
     THEN /\ CallFlush(p, "e_check")
          /\ triggered' = TRUE
     ELSE /\ Goto(p, "e_check")
          /\ UNCHANGED <<local, ret, triggered>>
  /\ UNCHANGED <<conf, fail, obs, target, sink, lock_sync, rlock, event_new_emit,
                 event_delay_flush, sync_flag, thread_closing, barrier, merge,
                 level, needBar, waited, nEmits, flushNowCalls, highSeen,
                 closeMark, doneMark>>

\* if self._sync_backgroud_flush: set the delay event, release, go to the
\* barrier; else release and return
EmitCheck(p) ==
  /\ pc[p] = "e_check"
  /\ lock_sync' = NoThread
  /\ level' = [level EXCEPT ![p] = 0]
  /\ IF sync_flag
     THEN /\ event_delay_flush' = TRUE
          /\ Goto(p, "e_bar1")
     ELSE /\ Goto(p, "idle")
          /\ UNCHANGED event_delay_flush
  /\ UNCHANGED <<conf, fail, obs, buffer, target, sink, rlock, event_new_emit, sync_flag,
                 thread_closing, barrier, local, merge, ret, needBar,
                 waited, since, age, hist>>

\* between the two barriers: acquire, reset the flag and both events, release
EmitReset(p) ==
  /\ pc[p] = "e_reset"
  /\ lock_sync = NoThread
  /\ sync_flag' = FALSE
  /\ event_new_emit' = FALSE
  /\ event_delay_flush' = FALSE
  /\ Goto(p, "e_bar2")
  /\ UNCHANGED <<conf, fail, obs, buffer, target, sink, lock_sync, rlock, thread_closing,
                 barrier, local, merge, ret, level, needBar, waited, since, age, hist>>

\* ----------------------------------------------------------------- flush

\* a producer calls flush() itself
FlushCall(p) ==
  /\ pc[p] = "idle"
  /\ flushNowCalls < MaxFlushNow
  /\ flushNowCalls' = flushNowCalls + 1
  /\ CallFlush(p, "idle")
  /\ UNCHANGED <<conf, fail, obs, buffer, target, sink, lock_sync, rlock, event_new_emit,
                 event_delay_flush, sync_flag, thread_closing, barrier, merge,
                 level, needBar, waited, since, age, nEmits, triggered, highSeen,
                 closeMark, doneMark>>

\* self._lock_sync.acquire() of the local_lock_sync branch
FlushAcquire(t) ==
  /\ pc[t] = "f_acq"
  /\ lock_sync = NoThread
  /\ lock_sync' = t
  /\ Goto(t, "f_len")
  /\ UNCHANGED <<conf, fail, obs, buffer, target, sink, rlock, event_new_emit,
                 event_delay_flush, sync_flag, thread_closing, barrier, local,
                 merge, ret, level, needBar, waited, since, age, hist>>

\* if len(self.buffer) >= 1: choose the flush routine
FlushLen(t) ==
  /\ pc[t] = "f_len"
  /\ IF Len(buffer) >= 1
     THEN /\ merge' = [merge EXCEPT ![t] = UseAppendBuffer(buffer)]
          /\ Goto(t, "f_handle")
     ELSE /\ Goto(t, "f_exit")
          /\ UNCHANGED merge
  /\ UNCHANGED <<conf, fail, obs, buffer, target, sink, lock_sync, rlock, event_new_emit,
                 event_delay_flush, sync_flag, thread_closing, barrier, local,
                 ret, level, needBar, waited, since, age, hist>>

\* the flush routine up to its calls of self.target.handle:
\* self.acquire(); if self.target: hand the buffer to the target
FlushHandle(t) ==
  /\ pc[t] = "f_handle"
  /\ RCanAcquire(t)
  /\ rlock' = RAcquired(t)
  /\ sink' = IF target THEN sink \o Handled(buffer, merge[t]) ELSE sink
  /\ Goto(t, "f_clear")
  /\ UNCHANGED <<conf, fail, obs, buffer, target, lock_sync, event_new_emit,
                 event_delay_flush, sync_flag, thread_closing, barrier, local,
                 merge, ret, level, needBar, waited, since, age, hist>>

\* the flush routine of a flush() called directly, which holds
\* self._lock_sync, empties the buffer while the background thread is in
\* its delay wait
DirectFlushInWait(t) ==
  /\ ret[t] = "idle"
  /\ lock_sync = t
  /\ target
  /\ buffer # <<>>
  /\ pc["bg"] = "b_waitDelay"

\* the rest of the flush routine: self.buffer.clear() when there is a
\* target; self.release()
FlushClear(t) ==
  /\ pc[t] = "f_clear"
  /\ buffer' = AfterFlush(buffer)
  /\ age' = IF target THEN 0 ELSE age
  /\ flushedInWait' = (flushedInWait \/ DirectFlushInWait(t))
  /\ rlock' = RReleased
  /\ merge' = [merge EXCEPT ![t] = FALSE]
  /\ Goto(t, "f_exit")
  /\ UNCHANGED <<conf, fail, target, sink, lock_sync, event_new_emit,
                 event_delay_flush, sync_flag, thread_closing, barrier, local,
                 ret, level, needBar, waited, since, hist>>

\* if local_lock_sync: release; else self._sync_backgroud_flush = True
FlushExit(t) ==
  /\ pc[t] = "f_exit"
  /\ IF local[t]
     THEN /\ lock_sync' = NoThread
          /\ UNCHANGED sync_flag
     ELSE /\ sync_flag' = TRUE
          /\ UNCHANGED lock_sync
  /\ local' = [local EXCEPT ![t] = FALSE]
  /\ ret' = [ret EXCEPT ![t] = "idle"]
  /\ Goto(t, ret[t])
  /\ UNCHANGED <<conf, fail, obs, buffer, target, sink, rlock, event_new_emit,
                 event_delay_flush, thread_closing, barrier, merge, level,
                 needBar, waited, since, age, hist>>

\* ----------------------------------------------------------------- close

\* the closer calls close(); under self._lock_sync: set the flag, request
\* the closing, set both events
CloseLock ==
  /\ pc["cl"] = "idle"
  /\ lock_sync = NoThread
  /\ closeMark' = nEmits
  /\ sync_flag' = TRUE
  /\ thread_closing' = TRUE
  /\ event_new_emit' = TRUE
  /\ event_delay_flush' = TRUE
  /\ Goto("cl", "c_join")
  /\ UNCHANGED <<conf, fail, obs, buffer, target, sink, lock_sync, rlock, barrier, local,
                 merge, ret, level, needBar, waited, since, age, nEmits,
                 flushNowCalls, triggered, highSeen, doneMark>>

\* self._thread_auto_flush_buffer.join(), then MemoryHandler.close:
\* if self.flushOnClose: self.flush()
CloseJoin ==
  /\ pc["cl"] = "c_join"
  /\ pc["bg"] \in {"b_done", "b_dead"}
  /\ IF CloseFlushes
     THEN CallFlush("cl", "c_detach")
     ELSE /\ Goto("cl", "c_detach")
          /\ UNCHANGED <<local, ret>>
  /\ UNCHANGED <<conf, fail, obs, buffer, target, sink, lock_sync, rlock, event_new_emit,
                 event_delay_flush, sync_flag, thread_closing, barrier, merge,
                 level, needBar, waited, since, age, hist>>

\* MemoryHandler.close: self.acquire(); self.target = None; then
\* BufferingHandler.close calls self.flush()
CloseDetach ==
  /\ pc["cl"] = "c_detach"
  /\ RCanAcquire("cl")
  /\ rlock' = RAcquired("cl")
  /\ target' = FALSE
  /\ CallFlush("cl", "c_final")
  /\ UNCHANGED <<conf, fail, obs, buffer, sink, lock_sync, event_new_emit,
                 event_delay_flush, sync_flag, thread_closing, barrier, merge,
                 level, needBar, waited, since, age, hist>>

\* MemoryHandler.close: self.release(); close returns
CloseFinal ==
  /\ pc["cl"] = "c_final"
  /\ rlock' = RReleased
  /\ doneMark' = nEmits
  /\ Goto("cl", "c_done")
  /\ UNCHANGED <<conf, fail, obs, buffer, target, sink, lock_sync, event_new_emit,
                 event_delay_flush, sync_flag, thread_closing, barrier, local,
                 merge, ret, level, needBar, waited, since, age, nEmits,
                 flushNowCalls, triggered, highSeen, closeMark>>

\* ------------------------------------------------ _task_auto_flush_buffer

\* while not self._thread_closing
BgTop ==
  /\ pc["bg"] = "b_top"
  /\ Goto("bg", IF thread_closing THEN "b_done" ELSE "b_waitEmit")
  /\ UNCHANGED <<conf, fail, obs, buffer, target, sink, lock_sync, rlock, event_new_emit,
                 event_delay_flush, sync_flag, thread_closing, barrier, local,
                 merge, ret, level, needBar, waited, since, age, hist>>

\* self._event_new_emit.wait() returns; the delay wait starts
\* (need_wait_barrier is False here: BgCheck has reset it)
BgWaitEmit ==
  /\ pc["bg"] = "b_waitEmit"
  /\ event_new_emit
  /\ Goto("bg", "b_waitDelay")
  /\ UNCHANGED <<conf, fail, obs, buffer, target, sink, lock_sync, rlock, event_new_emit,
                 event_delay_flush, sync_flag, thread_closing, barrier, local,
                 merge, ret, level, needBar, waited, since, age, hist>>

\* self._event_delay_flush.wait(self._delay) returns True:
\* need_wait_barrier = True
BgPreempted ==
  /\ pc["bg"] = "b_waitDelay"
  /\ event_delay_flush
  /\ needBar' = TRUE
  /\ waited' = 0
  /\ Goto("bg", "b_chk")
  /\ UNCHANGED <<conf, fail, obs, buffer, target, sink, lock_sync, rlock, event_new_emit,
                 event_delay_flush, sync_flag, thread_closing, barrier, local,
                 merge, ret, level, since, age, hist>>

\* self._event_delay_flush.wait(self._delay) times out
BgTimeout ==
  /\ pc["bg"] = "b_waitDelay"
  /\ ~event_delay_flush
  /\ DelayExpired
  /\ waited' = 0
  /\ Goto("bg", "b_acq")
  /\ UNCHANGED <<conf, fail, obs, buffer, target, sink, lock_sync, rlock, event_new_emit,
                 event_delay_flush, sync_flag, thread_closing, barrier, local,
                 merge, ret, level, needBar, since, age, hist>>

\* self._lock_sync.acquire(); if len(self.buffer) >= 1: choose the routine
BgLock ==
  /\ pc["bg"] = "b_acq"
  /\ lock_sync = NoThread
  /\ lock_sync' = "bg"
  /\ IF Len(buffer) >= 1
     THEN /\ merge' = [merge EXCEPT !["bg"] = UseAppendBuffer(buffer)]
          /\ Goto("bg", "b_handle")
     ELSE /\ Goto("bg", "b_flag")
          /\ UNCHANGED merge
  /\ UNCHANGED <<conf, fail, obs, buffer, target, sink, rlock, event_new_emit,
                 event_delay_flush, sync_flag, thread_closing, barrier, local,
                 ret, level, needBar, waited, since, age, hist>>

\* the flush routine up to its calls of self.target.handle
BgHandle ==
  /\ pc["bg"] = "b_handle"
  /\ RCanAcquire("bg")
  /\ rlock' = RAcquired("bg")
  /\ sink' = IF target THEN sink \o Handled(buffer, merge["bg"]) ELSE sink
  /\ Goto("bg", "b_clear")
  /\ UNCHANGED <<conf, fail, obs, buffer, target, lock_sync, event_new_emit,
                 event_delay_flush, sync_flag, thread_closing, barrier, local,
                 merge, ret, level, needBar, waited, since, age, hist>>

\* the rest of the flush routine: self.buffer.clear(); self.release()
BgClear ==
  /\ pc["bg"] = "b_clear"
  /\ buffer' = AfterFlush(buffer)
  /\ age' = IF target THEN 0 ELSE age
  /\ rlock' = RReleased
  /\ merge' = [merge EXCEPT !["bg"] = FALSE]
  /\ Goto("bg", "b_flag")
  /\ UNCHANGED <<conf, fail, obs, target, sink, lock_sync, event_new_emit,
                 event_delay_flush, sync_flag, thread_closing, barrier, local,
                 ret, level, needBar, waited, since, hist>>

\* if self._sync_backgroud_flush: need_wait_barrier = True
\* else: self._event_new_emit.clear(); then self._lock_sync.release()
BgFlag ==
  /\ pc["bg"] = "b_flag"
  /\ IF sync_flag
     THEN /\ needBar' = TRUE
          /\ UNCHANGED event_new_emit
     ELSE /\ event_new_emit' = FALSE
          /\ UNCHANGED needBar
  /\ lock_sync' = NoThread
  /\ Goto("bg", "b_chk")
  /\ UNCHANGED <<conf, fail, obs, buffer, target, sink, rlock, event_delay_flush,
                 sync_flag, thread_closing, barrier, local, merge, ret, level,
                 waited, since, age, hist>>

\* if need_wait_barrier and (not self._thread_closing): go to the two
\* barriers; else back to the test of the loop
BgCheck ==
  /\ pc["bg"] = "b_chk"
  /\ Goto("bg", IF needBar /\ ~thread_closing THEN "b_bar1" ELSE "b_top")
  /\ needBar' = FALSE
  /\ UNCHANGED <<conf, fail, obs, buffer, target, sink, lock_sync, rlock, event_new_emit,
                 event_delay_flush, sync_flag, thread_closing, barrier, local,
                 merge, ret, level, waited, since, age, hist>>

\* ------------------------------------------------- the target raises

\* the texts handed to the target before its k-th handle call of the flush
\* routine raises: MemoryHandler.flush has handled the records before the
\* k-th, _flush_to_append_buffer_buffer makes one call only
HandledBefore(buf, m, k) ==
  IF m THEN <<>> ELSE HandleEach(SubSeq(buf, 1, k - 1))

\* the handle calls a flush routine makes for the buffer
HandleCalls(buf, m) == IF m THEN 1..Min(Len(buf), 1) ELSE 1..Len(buf)

\* where a caller is once the exception of its flush() has propagated:
\* out of emit() and of a direct flush() to the caller; in
\* MemoryHandler.close to the finally block that detaches the target
AfterRaise(r) == IF r = "c_detach" THEN "c_detach" ELSE "idle"

\* self.target.handle raises in the flush routine of a caller's flush():
\* self.buffer.clear() is skipped, the finally block releases the handler's
\* I/O lock, and the exception leaves flush() before its lines 111-116 and
\* emit() before its lines 80-93
FlushRaise(t) ==
  /\ pc[t] = "f_handle"
  /\ RCanAcquire(t)
  /\ target
  /\ failures < MaxFailures
  /\ \E k \in HandleCalls(buffer, merge[t]) :
       sink' = sink \o HandledBefore(buffer, merge[t], k)
  /\ failures' = failures + 1
  /\ failedBatch' = buffer
  /\ local' = [local EXCEPT ![t] = FALSE]
  /\ merge' = [merge EXCEPT ![t] = FALSE]
  /\ ret' = [ret EXCEPT ![t] = "idle"]
  /\ level' = [p \in Producers |-> IF p = t THEN 0 ELSE level[p]]
  /\ Goto(t, AfterRaise(ret[t]))
  /\ UNCHANGED <<conf, obs, buffer, target, lock_sync, rlock, event_new_emit,
                 event_delay_flush, sync_flag, thread_closing, barrier,
                 needBar, waited, since, age, hist>>

\* self.target.handle raises in the flush routine of the background
\* thread: the exception ends the thread before its lines 185-189
BgRaise ==
  /\ pc["bg"] = "b_handle"
  /\ RCanAcquire("bg")
  /\ target
  /\ failures < MaxFailures
  /\ \E k \in HandleCalls(buffer, merge["bg"]) :
       sink' = sink \o HandledBefore(buffer, merge["bg"], k)
  /\ failures' = failures + 1
  /\ failedBatch' = buffer
  /\ merge' = [merge EXCEPT !["bg"] = FALSE]
  /\ Goto("bg", "b_dead")
  /\ UNCHANGED <<conf, obs, buffer, target, lock_sync, rlock, event_new_emit,
                 event_delay_flush, sync_flag, thread_closing, barrier, local,
                 ret, level, needBar, waited, since, age, hist>>

\* ------------------------------------------------------------------ time

\* a producer between the set of the new-emit event and its append
Appending(p) == pc[p] = "e_append"

\* one tick of the clock: the delay wait of the background thread, the
\* emit() calls that have not appended yet and the buffered records grow
\* older
Tick ==
  /\ clock
  /\ hasDelay
  /\ \/ pc["bg"] = "b_waitDelay" /\ waited < Delay
     \/ buffer # <<>> /\ age < Delay
     \/ \E p \in Producers : Appending(p) /\ since[p] < Delay
  /\ waited' = IF pc["bg"] = "b_waitDelay" THEN Min(waited + 1, Delay) ELSE waited
  /\ age' = IF buffer # <<>> THEN Min(age + 1, Delay) ELSE age
  /\ since' = [p \in Producers |->
                IF Appending(p) THEN Min(since[p] + 1, Delay) ELSE since[p]]
  /\ UNCHANGED <<conf, fail, obs, buffer, target, sink, lock_sync, rlock, event_new_emit,
                 event_delay_flush, sync_flag, thread_closing, barrier, pc,
                 local, merge, ret, level, needBar, hist>>

\* ------------------------------------------------------------ the program

Producer(p) ==
  \/ EmitLock(p)
  \/ EmitAppend(p)
  \/ EmitCheck(p)
  \/ EmitReset(p)
  \/ FlushCall(p)

Flush(t) ==
  \/ FlushAcquire(t)
  \/ FlushLen(t)
  \/ FlushHandle(t)
  \/ FlushClear(t)
  \/ FlushExit(t)

Close ==
  \/ CloseLock
  \/ CloseJoin
  \/ CloseDetach
  \/ CloseFinal

Background ==
  \/ BgTop
  \/ BgWaitEmit
  \/ BgPreempted
  \/ BgTimeout
  \/ BgLock
  \/ BgHandle
  \/ BgClear
  \/ BgFlag
  \/ BgCheck

Next ==
  \/ \E p \in Producers : Producer(p)
  \/ \E t \in Callers : Flush(t)
  \/ \E t \in Producers \cup {"bg"} : BarrierWait(t)
  \/ Close
  \/ Background

Spec == Init /\ [][Next]_vars

\* a capacity that lets one delay window hold several records
WindowCapacity == MaxCapacity + 1

\* the handler with a delay, the clock counting its ticks
InitTimed == Constructed({WindowCapacity}, {TRUE}, {TRUE}, {FALSE}, TRUE)

NextTimed ==
  \/ Next
  \/ Tick

SpecTimed == InitTimed /\ [][NextTimed]_vars

\* the handler with a delay, every thread that can take a step of the call
\* it is in, or of its loop, eventually taking one; no caller has to make
\* a further call
InitFair == Constructed({WindowCapacity}, {TRUE}, BOOLEAN, {FALSE}, FALSE)

Running ==
  \/ \E p \in Producers : EmitAppend(p) \/ EmitCheck(p) \/ EmitReset(p)
  \/ \E t \in Callers : Flush(t)
  \/ \E t \in Producers \cup {"bg"} : BarrierWait(t)
  \/ CloseJoin
  \/ CloseDetach
  \/ CloseFinal
  \/ Background

SpecFair == InitFair /\ [][Next]_vars /\ WF_vars(Running)

\* the handler with a delay and a target whose handle can raise
InitFailing == Constructed({MaxCapacity}, {TRUE}, {TRUE}, BOOLEAN, FALSE)

Raise ==
  \/ \E t \in Callers : FlushRaise(t)
  \/ BgRaise

NextFailing ==
  \/ Next
  \/ Raise

SpecFailing == InitFailing /\ [][NextFailing]_vars

\* the capacities and the delays the constructor is called with
CapacityArgs == -1..MaxCapacity
DelayArgs == {-1, 0, Delay}

\* the positions of the threads when __init__ has raised: no handler, no
\* background thread
Rejected == [t \in Threads |-> "rejected"]

\* the call of the constructor, its arguments chosen
InitConstruct ==
  /\ Attributes(CapacityArgs, {TRUE}, {FALSE}, FALSE)
  /\ hasDelay \in BOOLEAN
  /\ delay \in (IF hasDelay THEN DelayArgs ELSE {0})
  /\ pc = [t \in Threads |-> "new"]

\* __init__: MemoryHandler.__init__ stores the capacity; the assert raises
\* for a delay below zero; otherwise the fields are set and the background
\* thread is started
Construct ==
  /\ pc["cl"] = "new"
  /\ pc' = (IF hasDelay /\ delay < 0 THEN Rejected ELSE Started)
  /\ UNCHANGED <<conf, fail, obs, buffer, target, sink, lock_sync, rlock,
                 event_new_emit, event_delay_flush, sync_flag, thread_closing,
                 barrier, local, merge, ret, level, needBar, waited, since,
                 age, hist>>

NextConstruct ==
  \/ Construct
  \/ Next

SpecConstruct == InitConstruct /\ [][NextConstruct]_vars

\* ------------------------------------------------------- what the sink saw

RECURSIVE Concat(_)
Concat(ss) == IF ss = <<>> THEN <<>> ELSE Head(ss) \o Concat(Tail(ss))

IsRecord(x) == x # NL

\* the records whose text reached the sink, in the order they reached it
Delivered == SelectSeq(Concat(sink), IsRecord)

Ids(q) == {q[i] : i \in 1..Len(q)}

Increasing(q) == \A i \in 1..Len(q) - 1 : q[i] < q[i + 1]

\* every record appended so far has reached the sink
AllDelivered == \A i \in 1..NAppended : i \in Ids(Delivered)

\* text(A) + "\n" + text(B) + "\n" + ... for the records of buf
MergedText(buf) ==
  [i \in 1..2 * Len(buf) |-> IF i % 2 = 1 THEN buf[(i + 1) \div 2] ELSE NL]

ProducersIdle == \A p \in Producers : pc[p] = "idle"

CallersIdle == \A t \in Callers : pc[t] = "idle"

\* the step of the background thread that hands records to the sink
BgDelivers == pc["bg"] = "b_handle" /\ pc'["bg"] = "b_clear" /\ sink' # sink

\* ------------------------------------------------------------------ claims

\* C1: in a run of emit() calls of the producers and of the background
\* thread, without direct flush() calls, no record reaches the sink twice
\* and the records reach it in the order of their emit() calls; once a final
\* close() with flushOnClose has returned, every record of an emit() call
\* made before close() was called has reached the sink.
C1_ExactlyOnceInOrder ==
  flushNowCalls = 0 =>
    /\ Increasing(Delivered)
    /\ (pc["cl"] = "c_done" /\ flushOnClose) =>
         \A i \in 1..closeMark : i \in Ids(Delivered)

\* close() with flushOnClose has returned after MaxRecords emit() calls whose
\* records reached the sink in several flushes
C1_Witness ==
  /\ pc["cl"] = "c_done"
  /\ flushOnClose
  /\ flushNowCalls = 0
  /\ closeMark = MaxRecords
  /\ Len(sink) >= 2
  /\ Len(Delivered) = MaxRecords

\* C2: without a delay, with records below the flush level only and neither
\* flush() nor close() called, when n emit() calls have returned and none is
\* running the sink has received capacity * floor(n / capacity) records.
C2_CapacityTrigger ==
  (~hasDelay /\ ~highSeen /\ flushNowCalls = 0 /\ closeMark = -1 /\ ProducersIdle)
    => Len(Delivered) = capacity * (Returned \div capacity)

\* three emit() calls have returned at a capacity of two: two records
\* delivered, one buffered
C2_Witness ==
  /\ ~hasDelay /\ ~highSeen /\ flushNowCalls = 0 /\ closeMark = -1
  /\ ProducersIdle
  /\ capacity = MaxCapacity
  /\ Returned = MaxCapacity + 1
  /\ Len(Delivered) = MaxCapacity
  /\ Len(buffer) = 1

\* C3: when the flush() of an emit() call with a record at or above the
\* flush level has returned, the buffer is empty and every record appended
\* so far, this one included, has reached the sink.
C3_SeverityFlush ==
  \A p \in Producers :
    (pc[p] = "e_check" /\ level[p] >= FlushLevel /\ target)
      => (buffer = <<>> /\ AllDelivered)

\* C4: with a delay, when no emit() call has flushed and every call made has
\* returned, every record appended reaches the sink without a further
\* emit(), flush() or close() call.
C4_DelayFlush ==
  \A n \in 1..MaxRecords : \A k \in 0..MaxFlushNow :
    (nEmits = n /\ flushNowCalls = k /\ closeMark = -1 /\ ~triggered /\ CallersIdle)
      ~> (AllDelivered \/ nEmits # n \/ flushNowCalls # k \/ closeMark # -1
            \/ triggered)

\* C5: when no emit() call has flushed and close() has not been called, the
\* background thread hands records to the sink only when the delay has
\* elapsed since the emit() call of the first record of the buffer.
C5_WindowAnchored ==
  [][(~triggered /\ closeMark = -1 /\ BgDelivers) => age >= Delay]_vars

\* C6: without a delay the background thread never gets to its flush, and
\* while fewer than capacity records, all below the flush level, have been
\* appended and neither flush() nor close() has been called, the sink has
\* received nothing.
C6_NoDelayNoBackgroundFlush ==
  ~hasDelay =>
    /\ pc["bg"] \notin {"b_acq", "b_handle", "b_clear", "b_flag"}
    /\ (~highSeen /\ NAppended < capacity /\ flushNowCalls = 0 /\ closeMark = -1)
         => sink = <<>>

\* without a delay, a record below the flush level is buffered, the
\* background thread is in its second wait, and the sink has received nothing
C6_Witness ==
  /\ ~hasDelay /\ ~highSeen /\ flushNowCalls = 0 /\ closeMark = -1
  /\ ProducersIdle
  /\ Len(buffer) = 1
  /\ capacity = MaxCapacity
  /\ pc["bg"] = "b_waitDelay"
  /\ sink = <<>>

C8_MergedOnce ==
  [][(append_buffer /\ target /\ Len(buffer) >= 2 /\ sink' # sink)
       => sink' = Append(sink, MergedText(buffer))]_vars

\* C9: the buffer never holds the record of an emit() call made after
\* close() has returned.
C9_RejectedAfterClose ==
  \A i \in Ids(buffer) : doneMark = -1 \/ i <= doneMark

\* C10: when close() has been called while the background thread is at one
\* of its two barrier points and no producer is inside emit() or flush(),
\* the background thread leaves its loop, so that the join of close()
\* returns.
C10_CloseJoins ==
  (pc["cl"] = "c_join" /\ pc["bg"] \in {"b_bar1", "b_bar2"} /\ ProducersIdle)
    ~> (pc["bg"] = "b_done" \/ ~ProducersIdle)

\* the other producer thread
Other(p) == CHOOSE q \in Producers : q # p

\* the producer is in the rendezvous branch of emit()
InRendezvous(p) == pc[p] \in {"e_bar1", "e_reset", "e_bar2"}

\* C11: a producer that has flushed in its emit() call and is in the
\* rendezvous branch of that call before close() is called, while the other
\* producer makes no call and flush() is never called directly, returns
\* from that emit() call, also when close() is called during the rendezvous.
C11_RendezvousAnswered ==
  \A p \in Producers :
    (InRendezvous(p) /\ closeMark = -1 /\ pc[Other(p)] = "idle"
       /\ flushNowCalls = 0)
      ~> (pc[p] = "idle" \/ pc[Other(p)] # "idle" \/ flushNowCalls # 0)

\* the records of the (k+1)-th and later calls of target.handle that
\* returned
DeliveredAfter(k) == SelectSeq(Concat(SubSeq(sink', k + 1, Len(sink'))), IsRecord)

\* C12: once a call of target.handle has raised during a flush, the buffer
\* holds none of the records of that flush's batch, and no later flush hands
\* any of them to the target.
C12_AtMostOnce ==
  [][failures' > 0 =>
       /\ Ids(buffer') \cap Ids(failedBatch') = {}
       /\ failures > 0 => Ids(DeliveredAfter(Len(sink))) \cap Ids(failedBatch) = {}]_vars

\* C13: a constructor called with a delay below zero or with a capacity
\* below 1 raises: there is no handler and no background thread.
C13_ConfigRejected ==
  (pc["cl"] # "new" /\ (capacity < 1 \/ (hasDelay /\ delay < 0)))
    => pc = Rejected

\* the step by which the emit() call of p returns from its second
\* self._barrier.wait()
ReturnsFromRendezvous(p) == pc[p] = "e_bar2" /\ pc'[p] = "idle"

\* C14: with a delay, when an emit() call that went through the rendezvous
\* returns, close() and a direct flush() not having been called: the
\* background thread has left the delay wait of the flushed window and is
\* before its wait for a new emit; a record appended since has the new-emit
\* event set, so that its own window starts; and, unless another emit()
\* call is running or has appended a record since, both events and the flag
\* _sync_backgroud_flush are clear.
C14_RendezvousPostcondition ==
  [][\A p \in Producers :
       (ReturnsFromRendezvous(p) /\ hasDelay /\ closeMark = -1
          /\ flushNowCalls = 0)
         => /\ pc'["bg"] \in {"b_top", "b_waitEmit"}
            /\ buffer' # <<>> => event_new_emit'
            /\ (pc'[Other(p)] = "idle" /\ buffer' = <<>>)
                 => (~event_new_emit' /\ ~event_delay_flush' /\ ~sync_flag')]_vars

\* the thread's next statement, in flush(), clears the buffer or writes the
\* flag _sync_backgroud_flush
AboutToMutate(t) ==
  \/ pc[t] = "f_clear" /\ target
  \/ pc[t] = "f_exit" /\ ~local[t]

\* C15: a thread that is about to clear the buffer or to write the flag
\* _sync_backgroud_flush in flush() is the thread that holds _lock_sync.
C15_LockDiscipline ==
  \A t \in Callers : AboutToMutate(t) => lock_sync = t

\* C16: once a flush() called directly has emptied the buffer while the
\* background thread was in its delay wait, no emit() call having flushed
\* and close() not having been called, the background thread hands records
\* to the sink only when the configured delay has elapsed since the emit()
\* call of the first record of the buffer.
C16_FlushNowDiscardsWindow ==
  [][(flushedInWait /\ ~triggered /\ closeMark = -1 /\ BgDelivers)
       => age >= delay]_vars

\* C17: with a delay, while close() has not been called, _lock_sync is
\* free and no producer is inside emit() or flush(): a buffer that is not
\* empty has the new-emit event set, and with an empty buffer both events
\* and the flag _sync_backgroud_flush are clear.
C17_IdleArmed ==
  (hasDelay /\ closeMark = -1 /\ lock_sync = NoThread /\ ProducersIdle)
    => /\ buffer # <<>> => event_new_emit
       /\ buffer = <<>> => (~event_new_emit /\ ~event_delay_flush /\ ~sync_flag)

\* C18: while the target is attached the buffer never holds more than
\* capacity records, and whenever _lock_sync is free and close() has not
\* been called it holds at most capacity - 1.
C18_BoundedBuffer ==
  target =>
    /\ Len(buffer) <= capacity
    /\ (lock_sync = NoThread /\ closeMark = -1) => Len(buffer) <= capacity - 1

\* after an emit() call has flushed at the capacity, the lock is free and
\* the buffer holds capacity - 1 records again
C18_Witness ==
  /\ target /\ closeMark = -1 /\ lock_sync = NoThread
  /\ triggered /\ ~highSeen
  /\ capacity = MaxCapacity
  /\ Len(Delivered) >= capacity
  /\ Len(buffer) = capacity - 1

\* the step by which the second thread to arrive at self._barrier.wait()
\* releases the thread waiting there and itself
BarrierCrossing == barrier # {} /\ barrier' = {}

\* C19: while neither close() nor a direct flush() has been called, every
\* crossing of the barrier releases the background thread together with one
\* producer: two producers never release each other.
C19_BarrierPairing ==
  [][(BarrierCrossing /\ closeMark = -1 /\ flushNowCalls = 0)
       => pc'["bg"] # pc["bg"]]_vars

\* the thread is in no call: a caller outside emit(), flush() and close(),
\* the background thread between two iterations of its loop or ended
OutsideCalls(t) ==
  IF t = "bg" THEN pc[t] \in {"b_top", "b_done", "b_dead"}
  ELSE pc[t] \in {"idle", "c_done"}

\* C20: a thread that is in no call, its last call having returned or
\* raised, does not hold _lock_sync.
C20_LockReleased ==
  \A t \in Threads : OutsideCalls(t) => lock_sync # t

====
